---- MODULE Spec2Model ----
(***************************************************************************)
(* A model of uninstall.py: one run of the command-line tool, from the     *)
(* parsing of its arguments to the exit of the process.                    *)
(*                                                                         *)
(* Instance identifiers, CSV fields and the other opaque texts are         *)
(* naturals; a text whose characters matter (the package name, the         *)
(* CloudWatch log-group name) is a sequence of one-character strings.      *)
(* A Python value that may be None is a sequence of length at most one:    *)
(* None is <<>> and the value v is <<v>>.                                  *)
(***************************************************************************)
EXTENDS Integers, Sequences, FiniteSets, TLC

VARIABLES
    argv,                \* the command line: what the operator passed
    csv_file,            \* the manifest file named by the command line
    fleet,               \* PingStatus of every instance at the provider
    provider,            \* how the provider pages the result of a lookup
    pc,                  \* position of the run in the script
    exit_status,         \* exit status of the process, None while it runs
    args,                \* result of parser.parse_args()
    file_opened,         \* whether open(RESOURCE_ID_FILE) has been called
    unique_resource_ids, \* the set read from the manifest
    instance_ids,        \* list(unique_resource_ids), argument of check_instances
    i,                   \* loop index of check_instances
    page_no,             \* lookups made for the current chunk
    next_token,          \* local of check_instances
    valid_ids,           \* local of check_instances, then valid_instances
    j,                   \* loop index of uninstall_package
    log,                 \* lines written to uninstall.log
    console,             \* what the process printed to the terminal
    describe_calls,      \* every ssm.describe_instance_information call, in order
    send_calls           \* every ssm.send_command call, in order

vars == <<argv, csv_file, fleet, provider, pc, exit_status, args, file_opened,
          unique_resource_ids, instance_ids, i, page_no, next_token, valid_ids,
          j, log, console, describe_calls, send_calls>>

(***************************************************************************)
(* Bounds of the model.                                                    *)
(***************************************************************************)
\* identifiers of the runs whose every fleet and paging is enumerated
MaxIds == 3
\* identifiers of the manifests whose every content is enumerated
MaxCsvIds == 2
\* size of the sets whose every order as a list is enumerated
MaxOrdered == 2
\* data rows of the manifests whose every content is enumerated
MaxRows == 3
\* largest manifest of the runs with many identifiers
MaxLargeIds == 151
\* lookups the provider answers for one chunk before the model stops following it
MaxPages == 3
\* characters of the package names whose every spelling is enumerated
MaxNameLen == 2
\* entries of a page of the runs with many identifiers, when the provider splits
PageCap == 50

None == <<>>
Some(v) == <<v>>

Min(a, b) == IF a < b THEN a ELSE b

\* mutant of Slice: the end of the slice is taken too
SliceInclusive(items, lo, hi) == SubSeq(items, lo + 1, Min(hi + 1, Len(items)))

\* Python's items[lo:hi] for 0 <= lo
Slice(items, lo, hi) == SubSeq(items, lo + 1, Min(hi, Len(items)))

RECURSIVE Flatten(_)
Flatten(ss) == IF ss = <<>> THEN <<>> ELSE Head(ss) \o Flatten(Tail(ss))

Range(s) == {s[k] : k \in 1..Len(s)}

(***************************************************************************)
(* Configuration and arguments.                                            *)
(***************************************************************************)
REGION_NAME == "us-east-1"

\* the values argparse accepts for -m/--mode, and the default
ModeChoices == {"distributor", "powershell"}
ModeDefault == "distributor"

\* parser.parse_args(): a missing required argument or a --mode outside the
\* choices makes argparse print the usage and an error and exit with status 2
ParseRejects(av) ==
    \/ av.resource_id_file = None
    \/ av.package_name = None
    \/ (av.mode # None /\ av.mode[1] \notin ModeChoices)

ParseExitStatus == 2

Namespace(av) ==
    [resource_id_file |-> av.resource_id_file,
     package_name     |-> av.package_name,
     mode             |-> IF av.mode = None THEN ModeDefault ELSE av.mode[1]]

\* the test of lines 47-49 on the parsed arguments
ArgsMissing(ns) == ns.resource_id_file = None \/ ns.package_name = None

RESOURCE_ID_FILE == args[1].resource_id_file[1]
PACKAGE_NAME == args[1].package_name[1]
MODE == args[1].mode

Exit(status) ==
    /\ pc' = "exited"
    /\ exit_status' = Some(status)

\* an exception nothing catches: the interpreter prints the traceback and
\* the process ends with status 1
UncaughtStatus == 1

Uncaught(exc) ==
    /\ console' = Append(console, exc)
    /\ Exit(UncaughtStatus)

LogLine(level, msg, a) == [level |-> level, msg |-> msg, args |-> a]

parse_args ==
    /\ pc = "parse_args"
    /\ IF ParseRejects(argv)
       THEN /\ console' = console \o <<"usage", "error">>
            /\ Exit(ParseExitStatus)
            /\ UNCHANGED args
       ELSE IF ArgsMissing(Namespace(argv))
       THEN /\ console' = Append(console, "help")
            /\ Exit(1)
            /\ args' = Some(Namespace(argv))
       ELSE /\ args' = Some(Namespace(argv))
            /\ pc' = "read_csv"
            /\ UNCHANGED <<console, exit_status>>
    /\ UNCHANGED <<argv, csv_file, fleet, provider, file_opened, unique_resource_ids,
                   instance_ids, i, page_no, next_token, valid_ids, j, log,
                   describe_calls, send_calls>>

(***************************************************************************)
(* The manifest: csv_file.rows is what csv.reader yields for the file, a   *)
(* sequence of rows, each the sequence of its fields (<<>> for an empty    *)
(* line); csv_file.readable is whether open() and the reading succeed.     *)
(***************************************************************************)
\* mutant of SkipHeader: the header row is read as a data row
KeepHeader(rows) == rows

\* next(reader, None): drops the first row, if there is one
SkipHeader(rows) == IF rows = <<>> THEN <<>> ELSE Tail(rows)

\* mutant of FirstColumns: every field of a row is taken, not the first only
AllColumns(rows) == UNION {Range(rows[k]) : k \in 1..Len(rows)}

\* {row[0] for row in reader if row}
FirstColumns(rows) == {rows[k][1] : k \in {n \in 1..Len(rows) : rows[n] # <<>>}}

Max(S) == CHOOSE x \in S : \A y \in S : y <= x

Ascending(S) ==
    IF S = {} THEN <<>>
    ELSE SelectSeq([k \in 1..Max(S) |-> k], LAMBDA x : x \in S)

Descending(S) ==
    IF S = {} THEN <<>>
    ELSE SelectSeq([k \in 1..Max(S) |-> Max(S) + 1 - k], LAMBDA x : x \in S)

Orderings(S) ==
    {s \in [1..Cardinality(S) -> S] : \A a, b \in 1..Cardinality(S) : s[a] = s[b] => a = b}

\* list(unique_resource_ids): the order of a set's elements is not defined.
\* Every order is enumerated for a set of at most MaxOrdered identifiers, the
\* ascending and the descending one for a larger set.
ListOf(S) ==
    IF Cardinality(S) <= MaxOrdered THEN Orderings(S)
    ELSE {Ascending(S), Descending(S)}

read_csv ==
    /\ pc = "read_csv"
    /\ file_opened' = TRUE
    /\ IF ~csv_file.readable
       THEN /\ Uncaught("OSError")
            /\ UNCHANGED <<unique_resource_ids, instance_ids>>
       ELSE /\ unique_resource_ids' = FirstColumns(SkipHeader(csv_file.rows))
            /\ instance_ids' \in ListOf(unique_resource_ids')
            /\ pc' = "check_instances"
            /\ UNCHANGED <<console, exit_status>>
    /\ UNCHANGED <<argv, csv_file, fleet, provider, args, i, page_no, next_token,
                   valid_ids, j, log, describe_calls, send_calls>>

(***************************************************************************)
(* The provider.  fleet maps the identifiers it manages to their           *)
(* PingStatus; an identifier outside its domain is unknown to it.  A       *)
(* lookup filtered on a list of identifiers reports the managed ones among *)
(* them, in the order of the list, over one or more pages; the token of a  *)
(* page is the text of the position the next page starts at.  Texts are    *)
(* sequences, so the empty text is <<>>.                                   *)
(***************************************************************************)
PingStatuses == {"Online", "ConnectionLost", "Inactive"}

\* the outcomes of a call of the SDK client: it returns, raises ClientError,
\* or raises an exception that is no ClientError (the endpoint is unreachable)
Outcomes == {"ok", "ClientError", "EndpointConnectionError"}

Information(batch) ==
    LET managed == SelectSeq(batch, LAMBDA id : id \in DOMAIN fleet)
    IN  [k \in 1..Len(managed) |->
            [InstanceId |-> managed[k], PingStatus |-> fleet[managed[k]]]]

\* Python's truth of next_token: None and the empty text are false
Truthy(tok) == tok # None /\ tok[1] # <<>>

\* the NextToken argument of a call: the keyword is passed only when
\* next_token is true
TokenSent(tok) == IF Truthy(tok) THEN tok ELSE None

\* How the provider pages, a property of the service the run talks to:
\*   "whole"        everything in one page, which carries no NextToken
\*   "cap"          pages of at most PageCap entries, the last without NextToken
\*   "split"        pages of any length, empty ones too; the last entry may be
\*                  followed by a token for one more, empty, page
\*   "empty_token"  pages of any length; the page that ends the result
\*                  carries the empty text as its NextToken
Pagings == {"whole", "cap", "split", "empty_token"}

\* the lengths of the page the provider may return when rem entries are left
PageLens(rem) ==
    CASE provider = "whole" -> {rem}
      [] provider = "cap" -> {Min(rem, PageCap)}
      [] provider = "split" -> 0..rem
      [] provider = "empty_token" -> {n \in 0..rem : n > 0 \/ rem = 0}

\* the NextToken of a page that ends at pos of total entries (None: no key)
EndMarks(pos, total) ==
    IF pos < total THEN {Some(<<pos>>)}
    ELSE CASE provider = "split" -> {None, Some(<<pos>>)}
           [] provider = "empty_token" -> {Some(<<>>)}
           [] OTHER -> {None}

\* the responses to describe_instance_information(Filters=batch, NextToken=sent);
\* NextToken = None stands for a response without the key
Responses(batch, sent) ==
    LET info  == Information(batch)
        start == IF sent = None THEN 0 ELSE sent[1][1]
    IN  UNION {
          {[InstanceInformationList |-> SubSeq(info, start + 1, start + n),
            NextToken |-> nt] : nt \in EndMarks(start + n, Len(info))}
          : n \in PageLens(Len(info) - start)}

(***************************************************************************)
(* check_instances                                                         *)
(***************************************************************************)
\* the size of a validation chunk
ChunkSize == 100

Online(instance) == instance.PingStatus = "Online"

\* mutant of ValidOf: the PingStatus is not tested
ValidOfAny(page) == [k \in 1..Len(page) |-> page[k].InstanceId]

\* the identifiers a page adds to valid_ids
ValidOf(page) ==
    LET online == SelectSeq(page, Online)
    IN  [k \in 1..Len(online) |-> online[k].InstanceId]

\* the lines a page adds to the log, one for each instance of the page
PageLog(page) ==
    [k \in 1..Len(page) |->
        IF Online(page[k])
        THEN LogLine("INFO", "Valid instance found with ID %s", <<page[k].InstanceId>>)
        ELSE LogLine("WARNING", "Valid instance %s is not online", <<page[k].InstanceId>>)]

check_instances_begin ==
    /\ pc = "check_instances"
    /\ log' = Append(log, LogLine("INFO", "Checking %s instance ID(s)", <<instance_ids>>))
    /\ valid_ids' = <<>>
    /\ i' = 0
    /\ pc' = "for_chunk"
    /\ UNCHANGED <<argv, csv_file, fleet, provider, exit_status, args, file_opened,
                   unique_resource_ids, instance_ids, page_no, next_token, j,
                   console, describe_calls, send_calls>>

\* mutant of check_instances_for: the return is inside the for loop, so the
\* function returns after the first chunk
check_instances_for_once ==
    /\ pc = "for_chunk"
    /\ IF i = 0 /\ i < Len(instance_ids)
       THEN /\ next_token' = None
            /\ page_no' = 0
            /\ pc' = "while_page"
            /\ UNCHANGED log
       ELSE /\ log' = Append(log, LogLine("INFO", "Found %d valid ID(s) out of %d",
                                          <<Len(valid_ids), Len(instance_ids)>>))
            /\ pc' = "validated"
            /\ UNCHANGED <<next_token, page_no>>
    /\ UNCHANGED <<argv, csv_file, fleet, provider, exit_status, args, file_opened,
                   unique_resource_ids, instance_ids, i, valid_ids, j, console,
                   describe_calls, send_calls>>

\* for i in range(0, len(instance_ids), 100): the next chunk, or the return
check_instances_for ==
    /\ pc = "for_chunk"
    /\ IF i < Len(instance_ids)
       THEN /\ next_token' = None
            /\ page_no' = 0
            /\ pc' = "while_page"
            /\ UNCHANGED log
       ELSE /\ log' = Append(log, LogLine("INFO", "Found %d valid ID(s) out of %d",
                                          <<Len(valid_ids), Len(instance_ids)>>))
            /\ pc' = "validated"
            /\ UNCHANGED <<next_token, page_no>>
    /\ UNCHANGED <<argv, csv_file, fleet, provider, exit_status, args, file_opened,
                   unique_resource_ids, instance_ids, i, valid_ids, j, console,
                   describe_calls, send_calls>>

\* mutant of PageReturned: the loop ends after the page, whatever its NextToken
PageReturnedOnce(response) ==
    /\ valid_ids' = valid_ids \o ValidOf(response.InstanceInformationList)
    /\ log' = log \o PageLog(response.InstanceInformationList)
    /\ i' = i + ChunkSize
    /\ pc' = "for_chunk"
    /\ UNCHANGED <<next_token, exit_status, console>>

\* the lookup returned response: lines 154-166
PageReturned(response) ==
    /\ valid_ids' = valid_ids \o ValidOf(response.InstanceInformationList)
    /\ log' = log \o PageLog(response.InstanceInformationList)
    /\ IF response.NextToken # None
       THEN /\ next_token' = response.NextToken
            /\ UNCHANGED <<i, pc>>
       ELSE /\ i' = i + ChunkSize
            /\ pc' = "for_chunk"
            /\ UNCHANGED next_token
    /\ UNCHANGED <<exit_status, console>>

\* mutant of PageFailed: the error is logged and the loop goes on to the
\* next chunk
PageFailedGoesOn ==
    /\ log' = Append(log, LogLine("ERROR", "Error processing instance: %s", <<"ClientError">>))
    /\ i' = i + ChunkSize
    /\ pc' = "for_chunk"
    /\ UNCHANGED <<valid_ids, next_token, exit_status, console>>

\* the lookup raised ClientError: lines 168-170
PageFailed ==
    /\ log' = Append(log, LogLine("ERROR", "Error processing instance: %s", <<"ClientError">>))
    /\ Exit(1)
    /\ UNCHANGED <<valid_ids, next_token, i, console>>

\* one turn of the while loop: one describe_instance_information call
check_instances_page ==
    /\ pc = "while_page"
    /\ page_no < MaxPages
    /\ LET batch == Slice(instance_ids, i, i + ChunkSize)
           sent  == TokenSent(next_token)
       IN  \E outcome \in Outcomes :
             /\ page_no' = page_no + 1
             /\ IF outcome = "ok"
                THEN \E response \in Responses(batch, sent) :
                       /\ describe_calls' = Append(describe_calls,
                              [Values |-> batch, NextToken |-> sent,
                               outcome |-> outcome, response |-> Some(response)])
                       /\ PageReturned(response)
                ELSE /\ describe_calls' = Append(describe_calls,
                              [Values |-> batch, NextToken |-> sent,
                               outcome |-> outcome, response |-> None])
                     /\ IF outcome = "ClientError"
                        THEN PageFailed
                        ELSE /\ Uncaught(outcome)
                             /\ UNCHANGED <<valid_ids, next_token, i, log>>
    /\ UNCHANGED <<argv, csv_file, fleet, provider, args, file_opened, unique_resource_ids,
                   instance_ids, j, send_calls>>

(***************************************************************************)
(* The script after check_instances: lines 186-193.                        *)
(***************************************************************************)
\* mutant of main_check: an empty validated list is not tested
main_check_untested ==
    /\ pc = "validated"
    /\ j' = 0
    /\ pc' = "uninstall_package"
    /\ UNCHANGED <<argv, csv_file, fleet, provider, exit_status, args, file_opened,
                   unique_resource_ids, instance_ids, i, page_no, next_token,
                   valid_ids, log, console, describe_calls, send_calls>>

\* mutant of main_check: an empty validated list is logged, and the run goes on
main_check_warns_only ==
    /\ pc = "validated"
    /\ log' = IF valid_ids = <<>>
              THEN Append(log, LogLine("WARNING", "No valid instances found", <<>>))
              ELSE log
    /\ j' = 0
    /\ pc' = "uninstall_package"
    /\ UNCHANGED <<argv, csv_file, fleet, provider, exit_status, args, file_opened,
                   unique_resource_ids, instance_ids, i, page_no, next_token,
                   valid_ids, console, describe_calls, send_calls>>

main_check ==
    /\ pc = "validated"
    /\ IF valid_ids = <<>>
       THEN /\ log' = Append(log, LogLine("WARNING", "No valid instances found", <<>>))
            /\ Exit(1)
            /\ UNCHANGED j
       ELSE /\ j' = 0
            /\ pc' = "uninstall_package"
            /\ UNCHANGED <<log, exit_status>>
    /\ UNCHANGED <<argv, csv_file, fleet, provider, args, file_opened, unique_resource_ids,
                   instance_ids, i, page_no, next_token, valid_ids, console,
                   describe_calls, send_calls>>

(***************************************************************************)
(* Dispatch: uninstall_package and process_batch.                          *)
(***************************************************************************)
UpperLetters == <<"A", "B", "C", "D", "E", "F", "G", "H", "I", "J", "K", "L", "M",
                  "N", "O", "P", "Q", "R", "S", "T", "U", "V", "W", "X", "Y", "Z">>
LowerLetters == <<"a", "b", "c", "d", "e", "f", "g", "h", "i", "j", "k", "l", "m",
                  "n", "o", "p", "q", "r", "s", "t", "u", "v", "w", "x", "y", "z">>

\* str.lower() on one character
LowerChar(c) ==
    IF \E k \in 1..Len(UpperLetters) : UpperLetters[k] = c
    THEN LowerLetters[CHOOSE k \in 1..Len(UpperLetters) : UpperLetters[k] = c]
    ELSE c

\* str.lower()
Lower(text) == [k \in 1..Len(text) |-> LowerChar(text[k])]

\* str.replace(old, new) for one-character old and new
Replace(text, old, new) == [k \in 1..Len(text) |-> IF text[k] = old THEN new ELSE text[k]]

\* mutant of LogGroupName: the spaces are replaced, the case is kept
LogGroupNameCased(name) ==
    <<"/", "t", "m", "/">> \o Replace(name, " ", "-")
        \o <<"U", "n", "i", "n", "s", "t", "a", "l", "l">>

\* f"/tm/{PACKAGE_NAME.lower().replace(' ', '-')}Uninstall"
LogGroupName(name) ==
    <<"/", "t", "m", "/">> \o Replace(Lower(name), " ", "-")
        \o <<"U", "n", "i", "n", "s", "t", "a", "l", "l">>

\* the inline script of the powershell mode
PowerShellCommands ==
    <<"$agentInstalled = Get-WmiObject -Class Win32_Product | Where-Object {$_.Name -eq \"Rapid7 Insight Agent\"}",
      "if ($agentInstalled) {",
      "    $uninstallResult = msiexec.exe /x $($agentInstalled.IdentifyingNumber) /qn",
      "    if ($LASTEXITCODE -ne 0) {",
      "        Write-Output \"Failed to uninstall Rapid7 Insight Agent. Exit code: $LASTEXITCODE\"",
      "    }",
      "} else {",
      "    Write-Output \"Rapid7 Insight Agent is not installed.\"",
      "}">>

DocumentName(mode) ==
    IF mode = "distributor" THEN "AWS-ConfigureAWSPackage" ELSE "AWS-RunPowerShellScript"

\* mutant of Parameters: the script is given the package name
ParametersNamed(mode, name) ==
    IF mode = "distributor"
    THEN [action |-> <<"Uninstall">>, name |-> <<name>>]
    ELSE [commands |-> PowerShellCommands, name |-> <<name>>]

Parameters(mode, name) ==
    IF mode = "distributor"
    THEN [action |-> <<"Uninstall">>, name |-> <<name>>]
    ELSE [commands |-> PowerShellCommands]

CloudWatchOutputConfig(name) ==
    [CloudWatchOutputEnabled |-> TRUE, CloudWatchLogGroupName |-> LogGroupName(name)]

\* the keyword arguments of ssm.send_command for a batch
SendCommandRequest(batch, mode, name) ==
    [InstanceIds            |-> batch,
     DocumentName           |-> DocumentName(mode),
     Parameters             |-> Parameters(mode, name),
     CloudWatchOutputConfig |-> CloudWatchOutputConfig(name)]

\* the size of a dispatch batch
batch_size == 50

\* mutant of BatchAt: the slice takes one identifier too many
BatchAtInclusive(items, at) == Slice(items, at, at + batch_size + 1)

\* batch = items[i:i + batch_size]
BatchAt(items, at) == Slice(items, at, at + batch_size)

Uninstalling(batch) ==
    LogLine("INFO", "Uninstalling %s using %s from instance IDs: %s",
            <<PACKAGE_NAME, MODE, batch>>)

\* the send_command of a batch returned: lines 117-119
BatchSent(batch) ==
    /\ log' = log \o <<Uninstalling(batch),
                       LogLine("INFO", "Command ID: %s Status: %s",
                               <<Len(send_calls) + 1, "Pending">>)>>
    /\ UNCHANGED <<pc, exit_status, console>>

\* mutant of BatchFailed: the error is logged and the loop goes on
BatchFailedGoesOn(batch) ==
    /\ log' = log \o <<Uninstalling(batch),
                       LogLine("ERROR", "Error processing batch: %s", <<"ClientError">>)>>
    /\ UNCHANGED <<pc, exit_status, console>>

\* the send_command of a batch raised ClientError: lines 120-122
BatchFailed(batch) ==
    /\ log' = log \o <<Uninstalling(batch),
                       LogLine("ERROR", "Error processing batch: %s", <<"ClientError">>)>>
    /\ Exit(1)
    /\ UNCHANGED console

process_batch(batch) ==
    \E outcome \in Outcomes :
      /\ send_calls' = Append(send_calls,
             [request |-> SendCommandRequest(batch, MODE, PACKAGE_NAME),
              outcome |-> outcome])
      /\ IF outcome = "ok" THEN BatchSent(batch)
         ELSE IF outcome = "ClientError" THEN BatchFailed(batch)
         ELSE /\ log' = Append(log, Uninstalling(batch))
              /\ Uncaught(outcome)

\* one turn of the loop of uninstall_package, or the end of the script
uninstall_package ==
    /\ pc = "uninstall_package"
    /\ IF j < Len(valid_ids)
       THEN /\ process_batch(BatchAt(valid_ids, j))
            /\ j' = IF pc' = "exited" THEN j ELSE j + batch_size
       ELSE /\ Exit(0)
            /\ UNCHANGED <<j, log, console, send_calls>>
    /\ UNCHANGED <<argv, csv_file, fleet, provider, args, file_opened,
                   unique_resource_ids, instance_ids, i, page_no, next_token,
                   valid_ids, describe_calls>>

(***************************************************************************)
(* The runs of the model: the command line, the manifest, the fleet and    *)
(* the paging of the provider that a run starts from.                      *)
(***************************************************************************)
\* The package name of the runs that do not vary it
MyTool == <<"M", "y", " ", "T", "o", "o", "l">>

NameAlphabet == {"A", "b", " ", "-", "/"}

SeqsUpTo(S, n) == UNION {[1..m -> S] : m \in 0..n}

GoodArgv(name, mode) ==
    [resource_id_file |-> Some(1), package_name |-> Some(name), mode |-> mode]

\* a manifest with a header and one row for each of the identifiers 1..n
Listing(n) == <<<<0, 0>>>> \o [k \in 1..n |-> <<k, 0>>]

AllOnline(n) == [id \in 1..n |-> "Online"]

\* every command line, on a one-line manifest
ArgRuns ==
    {[argv     |-> [resource_id_file |-> f, package_name |-> p, mode |-> m],
      csv_file |-> [readable |-> r, rows |-> Listing(1)],
      fleet    |-> AllOnline(1),
      provider |-> "whole"] :
        f \in {None, Some(1)},
        p \in {None, Some(MyTool)},
        m \in {None, Some("distributor"), Some("powershell"), Some("verbose")},
        r \in BOOLEAN}

\* the rows of the enumerated manifests: an empty line, an identifier alone,
\* an identifier followed by a second column that reads like another one
Rows == {<<>>} \cup {<<a>> : a \in 1..MaxCsvIds} \cup {<<1, 2>>}

\* every manifest of at most MaxRows data rows after a header row, and the
\* empty file
CsvRuns ==
    {[argv     |-> GoodArgv(MyTool, None),
      csv_file |-> [readable |-> TRUE, rows |-> rows],
      fleet    |-> AllOnline(MaxCsvIds),
      provider |-> "whole"] :
        rows \in {<<>>} \cup {<<h>> \o d : h \in Rows, d \in SeqsUpTo(Rows, MaxRows)}}

\* every fleet of at most MaxIds identifiers, under every paging
FleetRuns ==
    {[argv     |-> GoodArgv(MyTool, None),
      csv_file |-> [readable |-> TRUE, rows |-> Listing(n)],
      fleet    |-> f,
      provider |-> p] :
        n \in {MaxIds},
        f \in UNION {[S -> PingStatuses \ {"Inactive"}] : S \in SUBSET (1..MaxIds)},
        p \in Pagings}

\* the sizes of the large manifests: around the multiples of batch_size, and the largest
LargeSizes ==
    {n \in 0..MaxLargeIds : n % batch_size \in {0, 1, 25, 49} \/ n = MaxLargeIds}

\* every identifier of 1..n is managed, and one in six is not Online
OneInSix(n, status) == [id \in 1..n |-> IF id % 6 = 0 THEN status ELSE "Online"]

\* the identifiers of 1..n that are not a multiple of six are managed and Online
FiveInSix(n) == [id \in {k \in 1..n : k % 6 # 0} |-> "Online"]

LargeFleets(n) ==
    {AllOnline(n), OneInSix(n, "ConnectionLost"), FiveInSix(n),
     [id \in 1..n |-> "Inactive"]}

LargeRuns ==
    UNION {
      {[argv     |-> GoodArgv(MyTool, None),
        csv_file |-> [readable |-> TRUE, rows |-> Listing(n)],
        fleet    |-> f,
        provider |-> p] : f \in LargeFleets(n), p \in {"whole", "cap"}}
      : n \in LargeSizes}

\* every package name of at most MaxNameLen characters, in both modes
NameRuns ==
    {[argv     |-> GoodArgv(name, Some(m)),
      csv_file |-> [readable |-> TRUE, rows |-> Listing(1)],
      fleet    |-> AllOnline(1),
      provider |-> "whole"] :
        name \in SeqsUpTo(NameAlphabet, MaxNameLen) \cup {MyTool},
        m \in ModeChoices}

Runs == ArgRuns \cup CsvRuns \cup FleetRuns \cup LargeRuns \cup NameRuns

Init ==
    /\ \E run \in Runs :
         /\ argv = run.argv
         /\ csv_file = run.csv_file
         /\ fleet = run.fleet
         /\ provider = run.provider
    /\ pc = "parse_args"
    /\ exit_status = None
    /\ args = None
    /\ file_opened = FALSE
    /\ unique_resource_ids = {}
    /\ instance_ids = <<>>
    /\ i = 0
    /\ page_no = 0
    /\ next_token = None
    /\ valid_ids = <<>>
    /\ j = 0
    /\ log = <<>>
    /\ console = <<>>
    /\ describe_calls = <<>>
    /\ send_calls = <<>>

Next ==
    \/ parse_args
    \/ read_csv
    \/ check_instances_begin
    \/ check_instances_for
    \/ check_instances_page
    \/ main_check
    \/ uninstall_package

Spec == Init /\ [][Next]_vars

(***************************************************************************)
(* Properties.                                                             *)
(***************************************************************************)
Exited == pc = "exited"

HasLog(level, msg) == \E k \in 1..Len(log) : log[k].level = level /\ log[k].msg = msg

\* check_instances has returned
Validated == HasLog("INFO", "Found %d valid ID(s) out of %d")

\* the script has gone past the test of the validated list
PastMainCheck == Validated /\ pc # "validated"

SendFailed == \E k \in 1..Len(send_calls) : send_calls[k].outcome # "ok"

DescribeFailed == \E k \in 1..Len(describe_calls) : describe_calls[k].outcome # "ok"

RequiredArgumentMissing == argv.resource_id_file = None \/ argv.package_name = None

ModeRejected == argv.mode # None /\ argv.mode[1] \notin {"distributor", "powershell"}

\* the process got as far as opening the manifest, and could not read it
ManifestUnreadable == file_opened /\ ~csv_file.readable

NotOnlineWarnings ==
    SelectSeq(log, LAMBDA l : l.level = "WARNING" /\ l.msg = "Valid instance %s is not online")

C2_FailureIsLast ==
    \A k \in 1..Len(send_calls) :
        send_calls[k].outcome # "ok" =>
            /\ k = Len(send_calls)
            /\ Exited
            /\ exit_status = Some(1)
            /\ \A b \in 1..(k - 1) : send_calls[b].outcome = "ok"

C2_NothingUndone ==
    /\ Len(send_calls') >= Len(send_calls)
    /\ SubSeq(send_calls', 1, Len(send_calls)) = send_calls

C2_DispatchFailureAborts == []C2_FailureIsLast /\ [][C2_NothingUndone]_vars

\* three batches were due, the second failed: two calls were made
C2_Witness ==
    /\ Len(valid_ids) > 2 * batch_size
    /\ Len(send_calls) = 2
    /\ send_calls[1].outcome = "ok"
    /\ send_calls[2].outcome = "ClientError"
    /\ Exited

CeilDiv(n, d) == (n + d - 1) \div d

Batches == [k \in 1..Len(send_calls) |-> send_calls[k].request.InstanceIds]

\* C3: the batches sent are contiguous slices of the validated list, in its
\* order: each has batch_size identifiers except the last of the
\* ceil(N / batch_size), which has between 1 and batch_size; a run that
\* exits with 0 has sent all of them, and together they are the list.
C3_Batching ==
    LET N == Len(valid_ids)
        total == CeilDiv(N, batch_size)
    IN  /\ Len(Batches) <= total
        /\ \A k \in 1..Len(Batches) :
              /\ k < total => Len(Batches[k]) = batch_size
              /\ k = total => Len(Batches[k]) \in 1..batch_size
        /\ Flatten(Batches) = SubSeq(valid_ids, 1, Len(Flatten(Batches)))
        /\ (Exited /\ exit_status = Some(0)) =>
              /\ Len(Batches) = total
              /\ Flatten(Batches) = valid_ids

\* 125 validated identifiers were sent as batches of 50, 50 and 25
C3_Witness ==
    /\ Exited
    /\ exit_status = Some(0)
    /\ Len(valid_ids) = 125
    /\ [k \in 1..Len(Batches) |-> Len(Batches[k])] = <<50, 50, 25>>

\* C4: once validation has returned an empty list and the script has tested
\* it, the process has exited with status 1, the warning is the last line
\* of the log, and no send_command was issued.
C4_EmptyValidatedSet ==
    (PastMainCheck /\ valid_ids = <<>>) =>
        /\ Exited
        /\ exit_status = Some(1)
        /\ log[Len(log)] = LogLine("WARNING", "No valid instances found", <<>>)
        /\ send_calls = <<>>

\* candidates were looked up and none was Online
C4_Witness ==
    /\ PastMainCheck
    /\ valid_ids = <<>>
    /\ instance_ids # <<>>
    /\ \E k \in 1..Len(describe_calls) :
          /\ describe_calls[k].outcome = "ok"
          /\ describe_calls[k].response[1].InstanceInformationList # <<>>

\* the manifest was read and has a header row and nothing else
HeaderOnly == args # None /\ file_opened /\ csv_file.readable /\ Len(csv_file.rows) = 1

\* C5: a run on a manifest with only a header row has no candidate, makes no
\* provider call, goes on until it exits, and exits with status 1 and the
\* warning logged.
C5_HeaderOnlyManifest ==
    HeaderOnly =>
        /\ unique_resource_ids = {}
        /\ instance_ids = <<>>
        /\ describe_calls = <<>>
        /\ send_calls = <<>>
        /\ ~Exited => ENABLED Next
        /\ Exited =>
              /\ exit_status = Some(1)
              /\ HasLog("WARNING", "No valid instances found")

C5_Witness == HeaderOnly /\ Exited /\ csv_file.rows[1] # <<>>

\* the pages the lookups returned, in the order of the calls
PagesReceived ==
    LET ok == SelectSeq(describe_calls, LAMBDA c : c.outcome = "ok")
    IN  [k \in 1..Len(ok) |-> ok[k].response[1].InstanceInformationList]

\* every entry the lookups reported, in the order of its report
Reported == Flatten(PagesReceived)

IdsOf(entries) == [k \in 1..Len(entries) |-> entries[k].InstanceId]

\* the chunks of the candidate list, and the entries the provider holds for them
Chunks ==
    [c \in 1..CeilDiv(Len(instance_ids), 100) |->
        SubSeq(instance_ids, 100 * (c - 1) + 1, Min(100 * c, Len(instance_ids)))]

Held == Flatten([c \in 1..Len(Chunks) |-> Information(Chunks[c])])

C7_MissingPackageName ==
    (argv.package_name = None /\ pc # "parse_args") =>
        /\ Exited
        /\ exit_status = Some(1)
        /\ \E k \in 1..Len(console) : console[k] \in {"usage", "help"}
        /\ ~file_opened
        /\ describe_calls = <<>>
        /\ send_calls = <<>>

\* the first fields of the data rows of the manifest that are not empty
DataFirstFields ==
    {csv_file.rows[k][1] : k \in {n \in 2..Len(csv_file.rows) : Len(csv_file.rows[n]) > 0}}

\* the manifest was read
Loaded == args # None /\ file_opened /\ csv_file.readable

\* C8: the candidates read from a manifest are the distinct first fields of
\* its non-empty rows after the header row, each once.
C8_ManifestLoading ==
    Loaded =>
        /\ unique_resource_ids = DataFirstFields
        /\ Range(instance_ids) = DataFirstFields
        /\ Len(instance_ids) = Cardinality(DataFirstFields)

\* a header whose value is no data value, a duplicate, an empty row and a
\* second column
C8_Witness ==
    /\ Loaded
    /\ csv_file.rows = <<<<2>>, <<1, 2>>, <<>>, <<1>>>>
    /\ instance_ids = <<1>>

\* the log-group name the claim gives for a package name
ExpectedLogGroup(name) ==
    LET low(c) == IF \E k \in 1..26 : UpperLetters[k] = c
                  THEN LowerLetters[CHOOSE k \in 1..26 : UpperLetters[k] = c]
                  ELSE c
        mid == [k \in 1..Len(name) |-> IF name[k] = " " THEN "-" ELSE low(name[k])]
    IN  <<"/", "t", "m", "/">> \o mid \o <<"U", "n", "i", "n", "s", "t", "a", "l", "l">>

MyToolLogGroup ==
    <<"/", "t", "m", "/", "m", "y", "-", "t", "o", "o", "l",
      "U", "n", "i", "n", "s", "t", "a", "l", "l">>

\* C9: in both modes the log-group name of every send_command is "/tm/", the
\* package name with its upper-case letters lower-cased and its spaces
\* replaced by hyphens, and "Uninstall"; for "My Tool" it is
\* "/tm/my-toolUninstall".
C9_LogGroupName ==
    \A k \in 1..Len(send_calls) :
        LET group == send_calls[k].request.CloudWatchOutputConfig.CloudWatchLogGroupName
        IN  /\ group = ExpectedLogGroup(argv.package_name[1])
            /\ argv.package_name[1] = MyTool => group = MyToolLogGroup

C9_Witness ==
    /\ send_calls # <<>>
    /\ argv.package_name = Some(MyTool)
    /\ argv.mode = Some("powershell")

FirstOfChunk(k) == k = 1 \/ describe_calls[k - 1].Values # describe_calls[k].Values

\* the NextToken of the response to call k (None: the response has no key)
TokenReturned(k) == describe_calls[k].response[1].NextToken

\* C11, as stated: the first lookup of a chunk carries no token, every later
\* one carries the token the response before it returned, whatever its
\* value, and the lookups of a chunk end at the first response without a
\* token.
C11_TokenCarriedForward ==
    \A k \in 1..Len(describe_calls) :
        IF FirstOfChunk(k)
        THEN /\ describe_calls[k].NextToken = None
             /\ k > 1 => TokenReturned(k - 1) = None
        ELSE /\ TokenReturned(k - 1) # None
             /\ describe_calls[k].NextToken = TokenReturned(k - 1)

\* a lookup failed with the error of the provider
ProviderErrorAt(k) == describe_calls[k].outcome = "ClientError"

\* C12: a lookup that fails is the last call of the run: the process has
\* exited with status 1 in the same step and no send_command exists; when
\* the failure is a provider error, the error is the last line of the log.
C12_ValidationFailureIsFatal ==
    \A k \in 1..Len(describe_calls) :
        describe_calls[k].outcome # "ok" =>
            /\ k = Len(describe_calls)
            /\ Exited
            /\ exit_status = Some(1)
            /\ send_calls = <<>>
            /\ ProviderErrorAt(k) =>
                  /\ log # <<>>
                  /\ log[Len(log)].level = "ERROR"
                  /\ log[Len(log)].msg = "Error processing instance: %s"

\* a page had yielded an Online identifier, then the next lookup failed
C12_Witness ==
    /\ Len(describe_calls) >= 2
    /\ ProviderErrorAt(Len(describe_calls))
    /\ valid_ids # <<>>
    /\ Exited

\* the lists the lookups filtered on, each once, in the order of the calls
ChunksLookedUp ==
    LET starts == SelectSeq([k \in 1..Len(describe_calls) |-> k], FirstOfChunk)
    IN  [c \in 1..Len(starts) |-> describe_calls[starts[c]].Values]

C13_NoLookupAfterSend == send_calls # <<>> => describe_calls' = describe_calls

\* every chunk was looked up and the last lookup ended the loop of the last chunk
C13_LookupsOver ==
    send_calls # <<>> =>
        /\ Validated
        /\ ChunksLookedUp = Chunks
        /\ describe_calls[Len(describe_calls)].outcome = "ok"
        /\ TokenReturned(Len(describe_calls)) = None

\* C13: every lookup of a run comes before its first send_command: once a
\* send_command exists no lookup is added, and a send_command exists only
\* when the loop of the last chunk is over and check_instances has returned.
C13_ValidationBeforeDispatch == []C13_LookupsOver /\ [][C13_NoLookupAfterSend]_vars

\* two chunks were looked up, the second over two pages, before the first send
C13_Witness ==
    /\ Len(send_calls) = 1
    /\ Len(Chunks) = 2
    /\ Len(describe_calls) >= 3

Targeted == UNION {Range(send_calls[k].request.InstanceIds) : k \in 1..Len(send_calls)}

\* the identifiers the lookups reported with a PingStatus that satisfies Test
ReportedWith(Test(_)) ==
    {Reported[k].InstanceId : k \in {n \in 1..Len(Reported) : Test(Reported[n].PingStatus)}}

ReportedOnline == ReportedWith(LAMBDA status : status = "Online")

ReportedOtherwise == ReportedWith(LAMBDA status : status # "Online")

\* C14: every identifier a send_command targets is a first field of a data
\* row of the manifest and was reported by a lookup of the run, with the
\* PingStatus Online and no other.
C14_OnlyOnlineCandidatesTargeted ==
    /\ Targeted \subseteq DataFirstFields
    /\ Targeted \subseteq ReportedOnline
    /\ Targeted \cap ReportedOtherwise = {}

\* a run that targeted some identifiers and left out one reported with
\* another status and one that no response reported
C14_Witness ==
    /\ Targeted # {}
    /\ (DataFirstFields \cap ReportedOtherwise) \ Targeted # {}
    /\ DataFirstFields \ (Targeted \cup ReportedOnline \cup ReportedOtherwise) # {}

\* the number of send_command requests that target id
TimesTargeted(id) == Cardinality({k \in 1..Len(Batches) : id \in Range(Batches[k])})

Occurrences(seq, x) == Cardinality({k \in 1..Len(seq) : seq[k] = x})

\* C15: no identifier is targeted by two requests or twice by one, no batch
\* is sent twice, and a run that exits with status 0 has targeted every
\* validated identifier by exactly one request.
C15_DispatchedOnce ==
    /\ \A id \in Targeted :
          /\ TimesTargeted(id) = 1
          /\ Occurrences(Flatten(Batches), id) = 1
    /\ \A a, b \in 1..Len(Batches) : a # b => Batches[a] # Batches[b]
    /\ (Exited /\ exit_status = Some(0)) =>
          \A id \in Range(valid_ids) : TimesTargeted(id) = 1

\* a run of three batches that exited with status 0
C15_Witness ==
    /\ Exited
    /\ exit_status = Some(0)
    /\ Len(Batches) = 3
    /\ Cardinality(Targeted) = Len(valid_ids)

\* C16: every lookup filters on 1 to 100 identifiers; the lists filtered on
\* are the contiguous chunks of 100 of the candidate list, in order, each
\* used by all the lookups of its pages; they share no identifier, and when
\* check_instances returns they are all the chunks, cover every candidate
\* once, and valid_ids holds the Online identifiers of all of them.
C16_ValidationChunks ==
    /\ \A k \in 1..Len(describe_calls) : Len(describe_calls[k].Values) \in 1..100
    /\ ChunksLookedUp = SubSeq(Chunks, 1, Len(ChunksLookedUp))
    /\ \A a, b \in 1..Len(ChunksLookedUp) :
          a # b => Range(ChunksLookedUp[a]) \cap Range(ChunksLookedUp[b]) = {}
    /\ Cardinality(Range(Flatten(ChunksLookedUp))) = Len(Flatten(ChunksLookedUp))
    /\ Validated =>
          /\ Len(ChunksLookedUp) = CeilDiv(Len(instance_ids), 100)
          /\ Range(Flatten(ChunksLookedUp)) = unique_resource_ids
          /\ valid_ids = IdsOf(SelectSeq(Held, LAMBDA e : e.PingStatus = "Online"))

\* 150 candidates were looked up as two chunks of 100 and 50
C16_Witness ==
    /\ Validated
    /\ Len(instance_ids) = 150
    /\ [c \in 1..Len(ChunksLookedUp) |-> Len(ChunksLookedUp[c])] = <<100, 50>>
    /\ Len(valid_ids) = 125

\* the run ended on a failed lookup, a failed send_command or a manifest
\* that could not be read
FatalEnd == Exited /\ (DescribeFailed \/ SendFailed \/ ManifestUnreadable)

\* C17, as stated: a run that ends on a fatal condition has a line of
\* severity ERROR as the last line of its log.
C17_ErrorLoggedBeforeExit ==
    FatalEnd => (log # <<>> /\ log[Len(log)].level = "ERROR")

====
